---- MODULE Spec2Model ----
(***************************************************************************)
(* A model of two pieces of pyiron_atomistics:                             *)
(*   - HasStructure (atomistics/structure/has_structure.py): the frame     *)
(*     indexed access to the structures of a producer (get_structure,      *)
(*     _translate_frame, number_of_structures, iter_structures);           *)
(*   - StructureFactory.surface / surface_hkl (structure/factory.py): the  *)
(*     slab builders with their vacuum, centering and pbc policy.          *)
(* Lengths are integers in a fixed length unit; the inputs are drawn from  *)
(* even values so that the halves the centering takes are exact.           *)
(***************************************************************************)
EXTENDS Integers, Sequences, FiniteSets, TLC

\* ------------------------------------------------------------------ bounds
\* the largest number of structures the producer holds while it is accessed directly
MaxN == 3
\* the largest number of structures the producer holds while it is traversed
MaxTraversed == 2

\* --------------------------------------------------------------- arguments
\* Python values that are an integer, another key, or None, in one shape.
NoneArg == [tag |-> "none", v |-> 0, k |-> ""]
IntArg(i) == [tag |-> "int", v |-> i, k |-> ""]
KeyArg(s) == [tag |-> "key", v |-> 0, k |-> s]

\* the contents a producer may store in a frame
Sites == {"a", "b"}
\* what a producer hands out for an index it does not have
Undefined == "undef"

\* the generator objects of iter_structures that two callers hold at once
IterIds == {"g1", "g2"}

\* the non-integer keys tried; a keyed producer knows the first three, has no
\* frame for "missing" and cannot use "odd" as a key at all
Keys == {"first", "last", "far", "missing", "odd"}
IntFrames == (0 - (MaxN + 1)) .. (MaxN + 1)
FrameArgs == {IntArg(i) : i \in IntFrames} \cup {KeyArg(s) : s \in Keys}
StepArgs == {NoneArg} \cup {IntArg(i) : i \in {0 - 1, 0, MaxN}} \cup {KeyArg("last")}

VARIABLES
    frames,   \* the producer: the sequence of the sites it holds, 0-indexed as frames[i+1]
    keyed,    \* whether the producer overrides _translate_frame
    last,     \* the outcome of the latest get_structure call on the producer as it is
    iters,    \* the generator objects iter_structures has returned
    publications,  \* state.publications: the process-wide set of citation records
    built,    \* the outcome of the latest surface() or surface_hkl() call
    reading   \* the outcome of the latest read() call

vars == <<frames, keyed, last, iters, publications, built, reading>>
accessor == <<frames, keyed, last, iters>>
factory == <<publications, built>>
reader == <<reading>>

\* ---------------------------------------------------------------- producer
Producer(fs, kd) == [frames |-> fs, keyed |-> kd]
self == Producer(frames, keyed)

\* A producer's _number_of_structures: the count of the frames it holds.
_number_of_structures(p) == Len(p.frames)

\* The property number_of_structures delegates to the producer.
number_of_structures(p) == _number_of_structures(p)

\* A producer's per-frame computation. get_structure has checked the index, so an
\* implementation does not; for an index it does not hold the outcome is the
\* producer's own: it raises, or it returns something that is no stored frame.
_get_structure(p, frame, wrap_atoms) ==
    IF 0 <= frame /\ frame < Len(p.frames)
    THEN {[kind |-> "ok", site |-> p.frames[frame + 1], wrapped |-> wrap_atoms]}
    ELSE {[kind |-> "ProducerError", site |-> Undefined, wrapped |-> wrap_atoms],
          [kind |-> "ok", site |-> Undefined, wrapped |-> wrap_atoms]}

\* The translation of a keyed producer: "first" and "last" are the ends, "far" is
\* one past every frame, a key it does not know raises KeyError (as the docstring
\* of _translate_frame asks) and a key of a type it cannot use raises TypeError.
KeyedTranslation(key) ==
    CASE key.k = "first" -> [kind |-> "ok", v |-> 0]
      [] key.k = "last" -> [kind |-> "ok", v |-> 0 - 1]
      [] key.k = "far" -> [kind |-> "ok", v |-> MaxN + 1]
      [] key.k = "odd" -> [kind |-> "TypeError", v |-> 0]
      [] OTHER -> [kind |-> "KeyError", v |-> 0]

\* a mutant: the base class translates instead of raising
_translate_frame_Base(p, frame) == KeyedTranslation(frame)

\* HasStructure._translate_frame raises NotImplementedError unless overridden.
_translate_frame(p, frame) ==
    IF p.keyed THEN KeyedTranslation(frame)
    ELSE [kind |-> "NotImplementedError", v |-> 0]

\* ------------------------------------------------------------ get_structure
NoMsg == [frame |-> NoneArg, lo |-> 0, hi |-> 0]
NoStructure == [kind |-> "none", site |-> Undefined, wrapped |-> FALSE]

\* The outcome of one call: what is raised or returned, the message's
\* interpolated values, the reads of number_of_structures and the invocations of
\* the per-frame computation it made.
Outcome(kind, structure, msg, reads, calls) ==
    [kind |-> kind, structure |-> structure, msg |-> msg, reads |-> reads, calls |-> calls]

\* a mutant: the negative frame counted from the last index, not from the count
NormalizeFrame_FromLast(frame, num_structures) ==
    IF frame < 0 THEN frame + num_structures - 1 ELSE frame

\* the frame after "if frame < 0: frame += num_structures"
NormalizeFrame(frame, num_structures) ==
    IF frame < 0 THEN frame + num_structures ELSE frame

\* a mutant: the upper bound taken as inclusive
InRange_Inclusive(frame, num_structures) == 0 <= frame /\ frame <= num_structures

\* "0 <= frame < num_structures"
InRange(frame, num_structures) == 0 <= frame /\ frame < num_structures

\* "if iteration_step is not None: frame = iteration_step"
EffectiveFrame(frame, iteration_step) ==
    IF iteration_step # NoneArg THEN iteration_step ELSE frame

\* "isinstance(frame, int)"
IsInt(frame) == frame.tag = "int"

\* a mutant: the count is read once for the normalization and again for the check
CheckedAccess_Reread(p, frame, wrap_atoms) ==
    LET f == NormalizeFrame(frame, number_of_structures(p))
    IN  IF ~InRange(f, number_of_structures(p))
        THEN {Outcome("IndexError", NoStructure,
                      [frame |-> IntArg(f), lo |-> 0 - number_of_structures(p),
                       hi |-> number_of_structures(p)],
                      2, <<>>)}
        ELSE {Outcome(s.kind, s, NoMsg, 2, <<[frame |-> f, wrap_atoms |-> wrap_atoms]>>) :
                 s \in _get_structure(p, f, wrap_atoms)}

\* a mutant: the per-frame computation is always asked to wrap
CheckedAccess_Wrapped(p, frame, wrap_atoms) ==
    LET num_structures == number_of_structures(p)
        f == NormalizeFrame(frame, num_structures)
    IN  IF ~InRange(f, num_structures)
        THEN {Outcome("IndexError", NoStructure,
                      [frame |-> IntArg(f), lo |-> 0 - num_structures, hi |-> num_structures],
                      1, <<>>)}
        ELSE {Outcome(s.kind, s, NoMsg, 1, <<[frame |-> f, wrap_atoms |-> TRUE]>>) :
                 s \in _get_structure(p, f, TRUE)}

\* get_structure from the translated integer on (lines 96-102).
CheckedAccess(p, frame, wrap_atoms) ==
    LET num_structures == number_of_structures(p)
        f == NormalizeFrame(frame, num_structures)
    IN  IF ~InRange(f, num_structures)
        THEN {Outcome("IndexError", NoStructure,
                      [frame |-> IntArg(f), lo |-> 0 - num_structures, hi |-> num_structures],
                      1, <<>>)}
        ELSE {Outcome(s.kind, s, NoMsg, 1, <<[frame |-> f, wrap_atoms |-> wrap_atoms]>>) :
                 s \in _get_structure(p, f, wrap_atoms)}

\* a mutant: the translated index goes to the per-frame computation as it is
TranslatedAccess_Unchecked(p, frame, wrap_atoms) ==
    {Outcome(s.kind, s, NoMsg, 0, <<[frame |-> frame, wrap_atoms |-> wrap_atoms]>>) :
        s \in _get_structure(p, frame, wrap_atoms)}

\* What follows a translation: "frame = self._translate_frame(frame)" falls
\* through to the count, the normalization and the bounds check of lines 96-102.
TranslatedAccess(p, frame, wrap_atoms) == CheckedAccess(p, frame, wrap_atoms)

\* an error of the producer's own translation, as the caller sees it
ProducerRaised(kind) ==
    IF kind = "KeyError" THEN "ProducerKeyError" ELSE "ProducerTypeError"

\* a mutant: every error of the translation becomes the KeyError that names the key
TranslationFailure_CatchAll(t, frame) ==
    Outcome("KeyError", NoStructure, [frame |-> frame, lo |-> 0, hi |-> 0], 0, <<>>)

\* "try: frame = self._translate_frame(frame) / except NotImplementedError: raise
\* KeyError(...) from None": the one error that is caught is replaced, any other
\* leaves get_structure as the producer raised it.
TranslationFailure(t, frame) ==
    IF t.kind = "NotImplementedError"
    THEN Outcome("KeyError", NoStructure, [frame |-> frame, lo |-> 0, hi |-> 0], 0, <<>>)
    ELSE Outcome(ProducerRaised(t.kind), NoStructure, NoMsg, 0, <<>>)

\* HasStructure.get_structure: the set of the outcomes the call can have (one,
\* unless the producer's per-frame computation is itself undetermined).
get_structure(p, frame, wrap_atoms, iteration_step) ==
    LET f0 == EffectiveFrame(frame, iteration_step)
    IN  IF IsInt(f0) THEN CheckedAccess(p, f0.v, wrap_atoms)
        ELSE LET t == _translate_frame(p, f0)
             IN  IF t.kind # "ok" THEN {TranslationFailure(t, f0)}
                 ELSE TranslatedAccess(p, t.v, wrap_atoms)

\* ------------------------------------------------------------ the factory
\* the record publication_ase() returns
publication_ase == "ase"
\* a record that is registered before any surface is built
publication_pyiron == "pyiron"

\* The __name__ of each function of the list surface() walks, in its order;
\* ase_surf is ase.build.surface, whose __name__ is "surface".
SurfaceTable ==
    <<"add_adsorbate", "add_vacuum", "bcc100", "bcc110", "bcc111", "diamond100",
      "diamond111", "fcc100", "fcc110", "fcc111", "fcc211", "hcp0001", "hcp10m10",
      "mx2", "hcp0001_root", "fcc111_root", "bcc111_root", "root_surface",
      "root_surface_analysis", "surface">>

TableNames == {SurfaceTable[i] : i \in DOMAIN SurfaceTable}

\* The functions of ase.build that take (symbol, size, vacuum=None, ...).
SlabFamily ==
    {"bcc100", "bcc110", "bcc111", "diamond100", "diamond111", "fcc100", "fcc110",
     "fcc111", "fcc211", "hcp0001", "hcp10m10"}
\* The functions of ase.build that take (symbol, root, size, vacuum=None, ...).
RootFamily == {"hcp0001_root", "fcc111_root", "bcc111_root"}
\* a function of the caller's that takes (symbol, size, vacuum=None, **kwargs)
UserFunction == "my_slab"

\* a surface_type: a string, a plain function, or a callable that is no function
StrType(s) == [tag |-> "str", name |-> s]
FunctionType(f) == [tag |-> "function", name |-> f]
CallableType(c) == [tag |-> "callable", name |-> c]

SurfaceTypes ==
    {StrType(s) : s \in TableNames \cup {"not_a_real_surface", "FCC111", "ase_surf"}}
    \cup {FunctionType("fcc111"), FunctionType(UserFunction), CallableType("partial")}

Elements == {"Cu", "Mg"}
Sizes == {<<1, 1, 1>>, <<2, 1, 0>>}
Vacuums == {0, 2, 10}
\* **kwargs: none, or root=3
Kwargs == {"none", "root"}

\* pbc: None, a scalar or one flag per axis
PbcNone == [tag |-> "none", axes |-> <<FALSE, FALSE, FALSE>>]
PbcScalar(b) == [tag |-> "scalar", axes |-> <<b, b, b>>]
PbcAxes(a) == [tag |-> "axes", axes |-> a]
PbcArgs == {PbcNone, PbcScalar(TRUE), PbcScalar(FALSE), PbcAxes(<<TRUE, TRUE, FALSE>>)}
\* the keyword left out of a call
PbcOmitted == [tag |-> "omitted", axes |-> <<FALSE, FALSE, FALSE>>]

\* An atoms object: positions (rows of x, y, z), the 3x3 cell, the pbc flags, and
\* the library whose type it has.
Slab(type, positions, cell, pbc) ==
    [type |-> type, positions |-> positions, cell |-> cell, pbc |-> pbc]
NoSlab == Slab("none", <<>>, <<<<0, 0, 0>>, <<0, 0, 0>>, <<0, 0, 0>>>>, <<FALSE, FALSE, FALSE>>)

\* What a generator of ase.build may return when it is given no vacuum: slabs with
\* no atom, one atom and several atoms, with a flat or a tilted third cell vector.
RawSlabs ==
    {Slab("ase", <<>>,
          <<<<4, 0, 0>>, <<0, 4, 0>>, <<0, 0, 0>>>>, <<TRUE, TRUE, FALSE>>),
     Slab("ase", <<<<0, 0, 0>>>>,
          <<<<4, 0, 0>>, <<0, 4, 0>>, <<0, 0, 0>>>>, <<TRUE, TRUE, FALSE>>),
     Slab("ase", <<<<0, 0, 0>>, <<2, 2, 4>>, <<0, 2, 2>>>>,
          <<<<4, 0, 0>>, <<0, 4, 0>>, <<0, 0, 0>>>>, <<TRUE, TRUE, FALSE>>),
     Slab("ase", <<<<0, 0, 2>>, <<2, 0, 6>>>>,
          <<<<4, 0, 0>>, <<2, 4, 0>>, <<2, 2, 8>>>>, <<TRUE, TRUE, TRUE>>)}

RECURSIVE MaxOf(_)
\* the largest element of a non-empty sequence of integers
MaxOf(s) ==
    IF Len(s) = 1 THEN s[1]
    ELSE LET m == MaxOf(Tail(s)) IN IF s[1] >= m THEN s[1] ELSE m

RECURSIVE MinOf(_)
MinOf(s) ==
    IF Len(s) = 1 THEN s[1]
    ELSE LET m == MinOf(Tail(s)) IN IF s[1] <= m THEN s[1] ELSE m

\* "surface.positions[:, 2]"
ZColumn(slab) == [a \in DOMAIN slab.positions |-> slab.positions[a][3]]

\* a mutant: the z of the last atom taken for the highest
ZMax_LastAtom(slab) == slab.positions[Len(slab.positions)][3]

\* "np.max(surface.positions[:, 2])", of a slab with atoms
ZMax(slab) == MaxOf(ZColumn(slab))

\* "surface.cell[2, 2] = z"
SetCellZ(slab, z) == [slab EXCEPT !.cell[3][3] = z]

\* the exact half of an even length
Half(x) == x \div 2

\* a mutant: the atoms are moved along z only
ShiftPositions_ZOnly(slab, z_max) ==
    LET dz == Half(slab.cell[3][3]) - Half(z_max)
    IN  [slab EXCEPT !.positions =
            [a \in DOMAIN slab.positions |->
                <<slab.positions[a][1], slab.positions[a][2], slab.positions[a][3] + dz>>]]

\* "surface.positions += 0.5 * surface.cell[2] - [0, 0, z_max / 2]"
ShiftPositions(slab, z_max) ==
    LET d == <<Half(slab.cell[3][1]), Half(slab.cell[3][2]),
               Half(slab.cell[3][3]) - Half(z_max)>>
    IN  [slab EXCEPT !.positions =
            [a \in DOMAIN slab.positions |->
                <<slab.positions[a][1] + d[1], slab.positions[a][2] + d[2],
                  slab.positions[a][3] + d[3]>>]]

\* "surface.pbc = pbc": the setter of ase.Atoms writes the value into its three
\* flags, a scalar into each of them, and None as False.
SetPbc(slab, pbc) == [slab EXCEPT !.pbc = pbc.axes]

\* ase_to_pyiron: the pyiron Atoms with the positions, cell and pbc of the ASE one.
ase_to_pyiron(slab) == Slab("pyiron", slab.positions, slab.cell, slab.pbc)

\* What a generator of ase.build does with vacuum=v: atoms.center(vacuum=v, axis=2),
\* v of empty space below the lowest and above the highest atom.
CenterInVacuum(slab, v) ==
    IF slab.positions = <<>> THEN slab
    ELSE LET lo == MinOf(ZColumn(slab))
             hi == ZMax(slab)
         IN  [slab EXCEPT !.cell[3][3] = (hi - lo) + 2 * v,
                          !.positions = [a \in DOMAIN slab.positions |->
                              <<slab.positions[a][1], slab.positions[a][2],
                                slab.positions[a][3] - lo + v>>]]

\* the vacuum keyword of a generator call: absent, or a value
NoVacuum == [given |-> FALSE, v |-> 0]
WithVacuum(v) == [given |-> TRUE, v |-> v]

\* One call of a generator, as the builder makes it.
GenCall(name, symbol, size, vacuum, kwargs) ==
    [name |-> name, symbol |-> symbol, size |-> size, vacuum |-> vacuum, kwargs |-> kwargs]

\* Whether the function takes the keywords symbol, size, (vacuum) and kwargs.
Accepts(name, kwargs) ==
    \/ name \in SlabFamily /\ kwargs = "none"
    \/ name \in RootFamily /\ kwargs = "root"
    \/ name = UserFunction

\* The results a generator call can have: TypeError for keywords the function does
\* not take, an error of the generator's own (a size it refuses), or a slab.
Generate(call) ==
    IF ~Accepts(call.name, call.kwargs)
    THEN {[kind |-> "TypeError", slab |-> NoSlab]}
    ELSE {[kind |-> "GeneratorError", slab |-> NoSlab]}
         \cup {[kind |-> "ok",
                slab |-> IF call.vacuum.given THEN CenterInVacuum(raw, call.vacuum.v)
                         ELSE raw] : raw \in RawSlabs}

\* The outcome of a builder call: what is raised (and by what) or returned, the
\* name an error message holds, the generator calls made and what the generator
\* returned.
Built(kind, raisedBy, msg, gen, raw, result) ==
    [kind |-> kind, raisedBy |-> raisedBy, msg |-> msg, gen |-> gen, raw |-> raw,
     result |-> result]

\* a mutant: None is passed on as it is
DefaultPbc_Missing(pbc) == pbc

\* "if pbc is None: pbc = True"
DefaultPbc(pbc) == IF pbc = PbcNone THEN PbcScalar(TRUE) ELSE pbc

\* a mutant: a name that matches no entry is left bound to the last function
Resolve_Last(surface_type) ==
    IF surface_type.tag = "str"
    THEN IF \E i \in DOMAIN SurfaceTable : surface_type.name = SurfaceTable[i]
         THEN FunctionType(surface_type.name)
         ELSE FunctionType(SurfaceTable[Len(SurfaceTable)])
    ELSE surface_type

\* The loop over the list: a surface_type equal to a function's __name__ becomes
\* that function; anything else is left as it is.
Resolve(surface_type) ==
    IF surface_type.tag = "str" /\ \E i \in DOMAIN SurfaceTable : surface_type.name = SurfaceTable[i]
    THEN FunctionType(surface_type.name)
    ELSE surface_type

\* a mutant: "callable(surface_type)"
IsFunction_Callable(surface_type) == surface_type.tag \in {"function", "callable"}

\* "isinstance(surface_type, types.FunctionType)"
IsFunction(surface_type) == surface_type.tag = "function"

\* a mutant: the vacuum is never passed on
ForwardedVacuum_Never(center, vacuum) == NoVacuum

\* The vacuum keyword surface() passes to the generator.
ForwardedVacuum(center, vacuum) == IF center THEN WithVacuum(vacuum) ELSE NoVacuum

\* The uncentered branch of surface(): "z_max = np.max(...)", which raises
\* ValueError for no atoms, and "surface.cell[2, 2] = z_max + vacuum".
PadAbove(slab, vacuum) ==
    IF slab.positions = <<>> THEN [kind |-> "ValueError", slab |-> NoSlab]
    ELSE [kind |-> "ok", slab |-> SetCellZ(slab, ZMax(slab) + vacuum)]

\* StructureFactory.surface, after the registration of the citation: the set of
\* the outcomes the call can have, one for each result of the generator.
surface(element, surface_type, size, vacuum, center, pbc, kwargs) ==
    LET pbc1 == DefaultPbc(pbc)
        fn == Resolve(surface_type)
    IN  IF ~IsFunction(fn)
        THEN {Built("ValueError", "surface", fn.name, <<>>, NoSlab, NoSlab)}
        ELSE LET call == GenCall(fn.name, element, size, ForwardedVacuum(center, vacuum), kwargs)
             IN  {IF g.kind # "ok"
                  THEN Built(g.kind, "generator", "", <<call>>, NoSlab, NoSlab)
                  ELSE LET padded == IF center THEN [kind |-> "ok", slab |-> g.slab]
                                     ELSE PadAbove(g.slab, vacuum)
                       IN  IF padded.kind # "ok"
                           THEN Built(padded.kind, "np.max", "", <<call>>, g.slab, NoSlab)
                           ELSE Built("ok", "", "", <<call>>, g.slab,
                                      ase_to_pyiron(SetPbc(padded.slab, pbc1))) :
                     g \in Generate(call)}

\* the bulk lattices, Miller indices and layer counts tried
Lattices == {"Fe"}
MillerIndices == {<<1, 1, 1>>, <<2, 1, 0>>}
Layers == {0, 2}

\* One call of ase.build.surface as surface_hkl makes it.
HklCall(lattice, hkl, layers) ==
    [name |-> "surface", lattice |-> lattice, hkl |-> hkl, layers |-> layers,
     vacuum |-> NoVacuum]

\* ase_surf(lattice, hkl, layers): an error of the generator's own, or a raw slab.
GenerateHkl(call) ==
    {[kind |-> "GeneratorError", slab |-> NoSlab]}
    \cup {[kind |-> "ok",
           slab |-> IF call.vacuum.given THEN CenterInVacuum(raw, call.vacuum.v)
                    ELSE raw] : raw \in RawSlabs}

\* a mutant: the cell is padded as surface() does it, only without centering
HklPad_AsSurface(slab, vacuum, center) ==
    IF center THEN [kind |-> "ok", slab |-> slab] ELSE PadAbove(slab, vacuum)

\* surface_hkl's "z_max = np.max(...)" and "surface.cell[2, 2] = z_max + vacuum",
\* which run whatever center is.
HklPad(slab, vacuum, center) == PadAbove(slab, vacuum)

\* a mutant: None is replaced by True, as surface() does it
HklPbcArg_Defaulted(pbc) == IF pbc \in {PbcOmitted, PbcNone} THEN PbcScalar(TRUE) ELSE pbc

\* The parameter "pbc=True" of surface_hkl: True when the keyword is left out,
\* otherwise what the caller gave, None included.
HklPbcArg(pbc) == IF pbc = PbcOmitted THEN PbcScalar(TRUE) ELSE pbc

\* StructureFactory.surface_hkl, after the registration of the citation.
surface_hkl(lattice, hkl, layers, vacuum, center, pbc) ==
    LET call == HklCall(lattice, hkl, layers)
    IN  {IF g.kind # "ok"
         THEN Built(g.kind, "generator", "", <<call>>, NoSlab, NoSlab)
         ELSE LET padded == HklPad(g.slab, vacuum, center)
              IN  IF padded.kind # "ok"
                  THEN Built(padded.kind, "np.max", "", <<call>>, g.slab, NoSlab)
                  ELSE LET shifted == IF center
                                      THEN ShiftPositions(padded.slab, ZMax(g.slab))
                                      ELSE padded.slab
                       IN  Built("ok", "", "", <<call>>, g.slab,
                                 ase_to_pyiron(SetPbc(shifted, HklPbcArg(pbc)))) :
            g \in GenerateHkl(call)}

\* "state.publications.add(publication_ase())"
Registered(pubs) == pubs \cup {publication_ase}

NoBuild == [op |-> "none", surface_type |-> StrType(""), vacuum |-> 0, center |-> FALSE,
            pbc |-> PbcNone, out |-> Built("none", "", "", <<>>, NoSlab, NoSlab)]

\* The builders are static and synchronous: the caller has the outcome of one call
\* (a Structure or an error) before it makes the next one.
\* a mutant: the citation is registered when the slab is built
Surface_RegisterLast(element, surface_type, size, vacuum, center, pbc, kwargs) ==
    /\ built = NoBuild
    /\ \E o \in surface(element, surface_type, size, vacuum, center, pbc, kwargs) :
          /\ built' = [op |-> "surface", surface_type |-> surface_type, vacuum |-> vacuum,
                       center |-> center, pbc |-> pbc, out |-> o]
          /\ publications' = IF o.kind = "ok" THEN Registered(publications)
                              ELSE publications
    /\ UNCHANGED <<accessor, reader>>

\* One call of surface(element, surface_type, size, vacuum, center, pbc, **kwargs).
Surface(element, surface_type, size, vacuum, center, pbc, kwargs) ==
    /\ built = NoBuild
    /\ publications' = Registered(publications)
    /\ \E o \in surface(element, surface_type, size, vacuum, center, pbc, kwargs) :
          built' = [op |-> "surface", surface_type |-> surface_type, vacuum |-> vacuum,
                    center |-> center, pbc |-> pbc, out |-> o]
    /\ UNCHANGED <<accessor, reader>>

\* One call of surface_hkl(lattice, hkl, layers, vacuum, center, pbc).
SurfaceHkl(lattice, hkl, layers, vacuum, center, pbc) ==
    /\ built = NoBuild
    /\ publications' = Registered(publications)
    /\ \E o \in surface_hkl(lattice, hkl, layers, vacuum, center, pbc) :
          built' = [op |-> "surface_hkl", surface_type |-> StrType("surface"),
                    vacuum |-> vacuum, center |-> center, pbc |-> pbc, out |-> o]
    /\ UNCHANGED <<accessor, reader>>

\* ------------------------------------------------------------------ read
\* the files and the format keywords read() is tried with
ReadFiles == {"POSCAR", "s.cif", "s.xyz", "gone.vasp"}
ReadFormats == {"none", "vasp", "xyz"}

\* the errors a reader of another library may raise
ReaderErrors == {"ValueError", "TypeError", "FileNotFoundError"}

NoStructureRead == [type |-> "none", reader |-> "", file |-> ""]
\* one call of a reader with the arguments of read()
ReaderCall(library, file, format) == [reader |-> library, file |-> file, format |-> format]

\* pymatgen_read_from_file(*args, **kwargs): a structure, or an error of pymatgen's
\* (ValueError for a file extension it does not know, TypeError for a keyword it
\* does not take, another error for a file it cannot open).
pymatgen_read_from_file(file, format) ==
    {[kind |-> "ok", structure |-> [type |-> "pymatgen", reader |-> "pymatgen", file |-> file]]}
    \cup {[kind |-> e, structure |-> NoStructureRead] : e \in ReaderErrors}

\* read_using_pymatgen: "ase_to_pyiron(pymatgen_read_from_file(*args, **kwargs))"
read_using_pymatgen(file, format) ==
    {IF s.kind = "ok" THEN [s EXCEPT !.structure.type = "pyiron"] ELSE s :
        s \in pymatgen_read_from_file(file, format)}

\* read_using_ase: "self.ase.read(*args, **kwargs)", a structure or an error of ASE's
read_using_ase(file, format) ==
    {[kind |-> "ok", structure |-> [type |-> "pyiron", reader |-> "ase", file |-> file]]}
    \cup {[kind |-> e, structure |-> NoStructureRead] : e \in ReaderErrors}

\* The outcome of a read() call: what is returned or raised (and by which reader),
\* how the pymatgen reader ended, and the reader calls made.
ReadOutcome(kind, raisedBy, structure, pymatgen, calls) ==
    [kind |-> kind, raisedBy |-> raisedBy, structure |-> structure, pymatgen |-> pymatgen,
     calls |-> calls]

\* a mutant: every error of the pymatgen reader leads to the ASE reader
FallsBack_Any(kind) == kind # "ok"

\* "except (ValueError, TypeError):"
FallsBack(kind) == kind \in {"ValueError", "TypeError"}

\* StructureFactory.read: the set of the outcomes the call can have.
read(file, format) ==
    UNION {
        IF pm.kind = "ok"
        THEN {ReadOutcome("ok", "", pm.structure, pm.kind,
                          <<ReaderCall("pymatgen", file, format)>>)}
        ELSE IF FallsBack(pm.kind)
        THEN {ReadOutcome(a.kind, IF a.kind = "ok" THEN "" ELSE "ase", a.structure, pm.kind,
                          <<ReaderCall("pymatgen", file, format),
                            ReaderCall("ase", file, format)>>) :
                 a \in read_using_ase(file, format)}
        ELSE {ReadOutcome(pm.kind, "pymatgen", NoStructureRead, pm.kind,
                          <<ReaderCall("pymatgen", file, format)>>)} :
        pm \in read_using_pymatgen(file, format)}

NoRead == [called |-> FALSE, file |-> "", format |-> "none",
           out |-> ReadOutcome("none", "", NoStructureRead, "none", <<>>)]

\* One call of read(file) or read(file, format=...).
Read(file, format) ==
    /\ \E o \in read(file, format) :
          reading' = [called |-> TRUE, file |-> file, format |-> format, out |-> o]
    /\ UNCHANGED <<accessor, factory>>

\* ------------------------------------------------------------------- state
NoCall == [called |-> FALSE, frame |-> NoneArg, wrap_atoms |-> FALSE,
           iteration_step |-> NoneArg,
           out |-> Outcome("none", NoStructure, NoMsg, 0, <<>>)]

NoIter == [pc |-> "none", wrap_atoms |-> FALSE, madeAt |-> 0, n |-> 0, i |-> 0,
           out |-> <<>>, requested |-> <<>>, stable |-> TRUE]

Init ==
    /\ frames = <<>>
    /\ keyed \in BOOLEAN
    /\ last = NoCall
    /\ iters = [it \in IterIds |-> NoIter]
    /\ publications = {publication_pyiron}
    /\ built = NoBuild
    /\ reading = NoRead

\* A change of the producer: a traversal that has started (its range is read) no
\* longer runs over the producer as it was at its first pull.
Disturbed(its) ==
    [it \in DOMAIN its |->
        IF its[it].pc \in {"run", "done", "error"} THEN [its[it] EXCEPT !.stable = FALSE] ELSE its[it]]

\* The producer gains a structure (a job writes another step).
ProducerAppend(s, bound) ==
    /\ Len(frames) < bound
    /\ frames' = Append(frames, s)
    /\ last' = NoCall
    /\ iters' = Disturbed(iters)
    /\ UNCHANGED <<keyed, factory, reader>>

\* The producer loses its latest structure (a job is reset or rerun).
ProducerTruncate ==
    /\ Len(frames) > 0
    /\ frames' = SubSeq(frames, 1, Len(frames) - 1)
    /\ last' = NoCall
    /\ iters' = Disturbed(iters)
    /\ UNCHANGED <<keyed, factory, reader>>

\* a mutant: a call that raises leaves the producer without its frames
AfterGetStructure_Dropped(p, out) ==
    IF out.kind \in {"IndexError", "KeyError"} THEN [p EXCEPT !.frames = <<>>] ELSE p

\* The producer after a get_structure call: the method assigns to its locals
\* frame and num_structures only, and to nothing of self.
AfterGetStructure(p, out) == p

\* One call of get_structure(frame, wrap_atoms, iteration_step).
GetStructure(frame, wrap_atoms, iteration_step) ==
    /\ \E o \in get_structure(self, frame, wrap_atoms, iteration_step) :
          /\ last' = [called |-> TRUE, frame |-> frame, wrap_atoms |-> wrap_atoms,
                      iteration_step |-> iteration_step, out |-> o]
          /\ frames' = AfterGetStructure(self, o).frames
          /\ keyed' = AfterGetStructure(self, o).keyed
    /\ UNCHANGED <<iters, factory, reader>>

\* ----------------------------------------------------------- iter_structures
\* a mutant: the call computes the first element at once
IterCreate_Eager(it, wrap_atoms) ==
    /\ \E s \in _get_structure(self, 0, wrap_atoms) :
          iters' = [iters EXCEPT ![it] =
                       [NoIter EXCEPT !.pc = IF s.kind = "ok" THEN "run" ELSE "error",
                                      !.wrap_atoms = wrap_atoms,
                                      !.n = number_of_structures(self),
                                      !.i = IF s.kind = "ok" THEN 1 ELSE 0,
                                      !.out = IF s.kind = "ok" THEN <<s>> ELSE <<>>,
                                      !.requested = <<0>>]]
    /\ UNCHANGED <<frames, keyed, last, factory, reader>>

\* iter_structures(wrap_atoms) returns a generator object; none of its body runs.
IterCreate(it, wrap_atoms) ==
    /\ iters' = [iters EXCEPT ![it] =
                    [NoIter EXCEPT !.pc = "new", !.wrap_atoms = wrap_atoms,
                                   !.madeAt = number_of_structures(self)]]
    /\ UNCHANGED <<frames, keyed, last, factory, reader>>

\* a mutant: the count is read again at every loop head
IterStep_Reread(g, p, n, i) ==
    IF i >= number_of_structures(p)
    THEN {[g EXCEPT !.pc = "done", !.n = number_of_structures(p), !.madeAt = 0]}
    ELSE {IF s.kind = "ok"
          THEN [g EXCEPT !.pc = "run", !.n = number_of_structures(p), !.i = i + 1,
                         !.madeAt = 0, !.out = Append(g.out, s),
                         !.requested = Append(g.requested, i)]
          ELSE [g EXCEPT !.pc = "error", !.n = number_of_structures(p), !.madeAt = 0,
                         !.requested = Append(g.requested, i)] :
             s \in _get_structure(p, i, g.wrap_atoms)}

\* a mutant: the range stops one short
IterRange_Short(g, p) == number_of_structures(p) - 1

\* a mutant: the count as it was when iter_structures() was called
IterRange_Cached(g, p) == g.madeAt

\* "range(self.number_of_structures)", evaluated when the body starts to run
IterRange(g, p) == number_of_structures(p)

\* The body from a loop head with index i of range(n): StopIteration past the
\* range, otherwise "yield self._get_structure(frame=i, wrap_atoms=wrap_atoms)".
IterStep(g, p, n, i) ==
    IF i >= n
    THEN {[g EXCEPT !.pc = "done", !.n = n, !.madeAt = 0]}
    ELSE {IF s.kind = "ok"
          THEN [g EXCEPT !.pc = "run", !.n = n, !.i = i + 1, !.madeAt = 0,
                         !.out = Append(g.out, s),
                         !.requested = Append(g.requested, i)]
          ELSE [g EXCEPT !.pc = "error", !.n = n, !.madeAt = 0,
                         !.requested = Append(g.requested, i)] :
             s \in _get_structure(p, i, g.wrap_atoms)}

\* a mutant: the loop index is one variable shared by the running traversals
IterNext_SharedIndex(it) ==
    /\ iters[it].pc \in {"new", "run"}
    /\ \E g \in IF iters[it].pc = "new"
                THEN IterStep(iters[it], self, IterRange(iters[it], self), 0)
                ELSE IterStep(iters[it], self, iters[it].n, iters[it].i) :
          iters' = [o \in IterIds |->
                       IF o = it THEN g
                       ELSE IF iters[o].pc = "run" THEN [iters[o] EXCEPT !.i = g.i]
                       ELSE iters[o]]
    /\ UNCHANGED <<frames, keyed, last, factory, reader>>

\* next() on a generator: the first one evaluates the range, every one runs the
\* body to the next yield or to its end.
IterNext(it) ==
    /\ iters[it].pc \in {"new", "run"}
    /\ \E g \in IF iters[it].pc = "new"
                THEN IterStep(iters[it], self, IterRange(iters[it], self), 0)
                ELSE IterStep(iters[it], self, iters[it].n, iters[it].i) :
          iters' = [iters EXCEPT ![it] = g]
    /\ UNCHANGED <<frames, keyed, last, factory, reader>>

NextFrames ==
    \/ \E s \in Sites : ProducerAppend(s, MaxN)
    \/ ProducerTruncate
    \/ \E f \in FrameArgs, w \in BOOLEAN, st \in StepArgs : GetStructure(f, w, st)

NextIter ==
    \/ \E s \in Sites : ProducerAppend(s, MaxTraversed)
    \/ ProducerTruncate
    \/ \E it \in IterIds, w \in BOOLEAN : IterCreate(it, w)
    \/ \E it \in IterIds : IterNext(it)

\* The caller is done with the outcome of a builder call.
TakeResult ==
    /\ built # NoBuild
    /\ built' = NoBuild
    /\ UNCHANGED <<accessor, publications, reader>>

NextFactory ==
    \/ TakeResult
    \/ \E e \in Elements, t \in SurfaceTypes, sz \in Sizes, v \in Vacuums,
          c \in BOOLEAN, pb \in PbcArgs, kw \in Kwargs : Surface(e, t, sz, v, c, pb, kw)
    \/ \E la \in Lattices, hkl \in MillerIndices, ly \in Layers, v \in Vacuums,
          c \in BOOLEAN, pb \in PbcArgs \cup {PbcOmitted} : SurfaceHkl(la, hkl, ly, v, c, pb)

NextRead == \E f \in ReadFiles, fmt \in ReadFormats : Read(f, fmt)

Next == NextFrames \/ NextIter \/ NextFactory \/ NextRead

\* the accessor with its direct calls
SpecFrames == Init /\ [][NextFrames]_vars
\* the accessor with its traversals
SpecIter == Init /\ [][NextIter]_vars
\* the slab builders
SpecFactory == Init /\ [][NextFactory]_vars
\* the reader
SpecRead == Init /\ [][NextRead]_vars
Spec == Init /\ [][Next]_vars

\* ------------------------------------------------------------------ claims
\* the frame the latest call worked on, and the producer's count
LastFrame == EffectiveFrame(last.frame, last.iteration_step)
N == Len(frames)
Raised == {"IndexError", "KeyError"}

\* C1: a call with an integer frame raises IndexError if and only if the frame is
\* outside [-N, N); otherwise it returns the producer's structure at index frame
\* (frame >= 0) or frame + N (frame < 0), for every N >= 0.
C1_BoundsIff ==
    (last.called /\ IsInt(LastFrame)) =>
        LET f == LastFrame.v
            idx == IF f >= 0 THEN f ELSE f + N
        IN  /\ (last.out.kind = "IndexError") <=> (f < 0 - N \/ f >= N)
            /\ (f >= 0 - N /\ f < N) =>
                  /\ last.out.kind = "ok"
                  /\ last.out.structure.site = frames[idx + 1]
                  /\ last.out.calls = <<[frame |-> idx, wrap_atoms |-> last.wrap_atoms]>>

\* C1 witness: with three structures, get_structure(-4) has raised IndexError.
C1_Witness ==
    /\ N = 3
    /\ last.called /\ last.iteration_step = NoneArg /\ last.frame = IntArg(0 - 4)
    /\ last.out.kind = "IndexError"

\* C2: for every i in [0, N), get_structure(i) and get_structure(i - N) hand the
\* same index i to the per-frame computation and return equal structures; the
\* latest call, when its frame was negative, is one of them.
C2_NegativeEquivalence ==
    /\ \A i \in 0 .. (N - 1), w \in BOOLEAN :
          LET pos == get_structure(self, IntArg(i), w, NoneArg)
              neg == get_structure(self, IntArg(i - N), w, NoneArg)
          IN  /\ pos = neg
              /\ \A o \in neg : o.kind = "ok" /\ o.calls[1].frame = i
    /\ (last.called /\ IsInt(LastFrame) /\ LastFrame.v < 0 /\ last.out.kind = "ok") =>
          last.out \in get_structure(self, IntArg(LastFrame.v + N), last.wrap_atoms, NoneArg)

\* C2 witness: get_structure(-2) has returned the second of three structures,
\* which differs from the last one.
C2_Witness ==
    /\ N = 3 /\ frames[2] # frames[3]
    /\ last.called /\ LastFrame = IntArg(0 - 2)
    /\ last.out.kind = "ok" /\ last.out.structure.site = frames[2]

\* C3: a call with a frame that is not an integer, on a producer without a frame
\* translation, raises KeyError with the key in its message and does not invoke
\* the per-frame computation.
C3_KeyErrorWithoutTranslation ==
    (last.called /\ ~IsInt(LastFrame) /\ ~keyed) =>
        /\ last.out.kind = "KeyError"
        /\ last.out.msg.frame = LastFrame
        /\ last.out.calls = <<>>

\* C3 witness: a producer with structures and no translation was asked for "first".
C3_Witness ==
    /\ ~keyed /\ N >= 1
    /\ last.called /\ LastFrame = KeyArg("first")
    /\ last.out.kind = "KeyError"

\* the structure get_structure(k) returns now, when it returns one
Direct(k, w) == {o.structure : o \in get_structure(self, IntArg(k), w, NoneArg)}

\* C4: a traversal during which the count N did not change yields, once it has
\* ended, exactly N elements in ascending index order, the k-th being what
\* get_structure(k) returns; while it runs, what it has yielded is a prefix of that.
C4_IterationComplete ==
    \A it \in IterIds :
        LET g == iters[it]
        IN  (g.pc \in {"run", "done"} /\ g.stable) =>
                /\ Len(g.out) <= N
                /\ g.pc = "done" => Len(g.out) = N
                /\ g.requested = [k \in 1 .. Len(g.out) |-> k - 1]
                /\ \A k \in 1 .. Len(g.out) : Direct(k - 1, g.wrap_atoms) = {g.out[k]}

\* C4 witness: a traversal over two different structures has ended.
C4_Witness ==
    /\ N = 2 /\ frames[1] # frames[2]
    /\ iters["g1"].pc = "done" /\ iters["g1"].stable /\ Len(iters["g1"].out) = 2

\* C5 (steps): a call of iter_structures gives a fresh traversal and touches no
\* other one; the first pull of a traversal reads the count as it is then and
\* asks for index 0; a pull moves no other traversal.
C5_Steps ==
    \A it \in IterIds :
        /\ (iters'[it].pc = "new" /\ iters'[it] # iters[it]) =>
              /\ iters'[it].out = <<>> /\ iters'[it].requested = <<>> /\ iters'[it].i = 0
              /\ \A other \in IterIds \ {it} : iters'[other] = iters[other]
        /\ (iters[it].pc = "new" /\ iters'[it].pc \in {"run", "done", "error"}) =>
              /\ iters'[it].n = Len(frames)
              /\ iters'[it].requested = (IF Len(frames) = 0 THEN <<>> ELSE <<0>>)
              /\ \A other \in IterIds \ {it} : iters'[other] = iters[other]

\* C5 (states): a traversal asks for the indices 0, 1, 2, ... in order and, when it
\* runs to its end, has yielded as many elements as the count read at its first pull.
C5_States ==
    \A it \in IterIds :
        LET g == iters[it]
        IN  /\ g.requested = [k \in 1 .. Len(g.requested) |-> k - 1]
            /\ g.pc = "done" => Len(g.out) = g.n

\* C5: iter_structures is restartable: every call starts a fresh traversal from
\* index 0, independent of any other traversal, and a traversal has as many
\* elements as the producer's count when the traversal starts, not a cached count.
C5_Restartable == [][C5_Steps]_vars /\ []C5_States

\* C5 witness: while one traversal is unfinished, a second one, created when the
\* producer held nothing, has started from index 0 over the two structures the
\* producer holds now.
C5_Witness ==
    /\ iters["g1"].pc = "run" /\ iters["g1"].n = 1
    /\ iters["g2"].pc = "run" /\ iters["g2"].n = 2 /\ iters["g2"].requested = <<0>>

\* what every valid frame gives
ValidResults ==
    [f \in (0 - N) .. (N - 1) |-> [w \in BOOLEAN |-> get_structure(self, IntArg(f), w, NoneArg)]]

\* C6: a get_structure call that raises IndexError or KeyError changes no state
\* of the accessor: the count and what every valid frame gives are as before.
C6_FailureLocal ==
    [][(last'.called /\ last'.out.kind \in Raised) =>
          /\ frames' = frames /\ keyed' = keyed /\ iters' = iters
          /\ ValidResults' = ValidResults]_vars

\* C6 witness: a producer with two structures was asked for frame 2, and the call
\* has raised.
C6_Witness ==
    /\ N = 2
    /\ last.called /\ last.out.kind = "IndexError" /\ LastFrame = IntArg(2)

\* C7: surface() with a surface_type name that matches no entry of the list raises
\* ValueError with the name in its message, calls no generator and returns nothing.
C7_UnknownSurfaceType ==
    (built.op = "surface" /\ built.surface_type.tag = "str"
        /\ built.surface_type.name \notin TableNames) =>
        /\ built.out.kind = "ValueError"
        /\ built.out.msg = built.surface_type.name
        /\ built.out.gen = <<>>
        /\ built.out.result = NoSlab

\* C7 witness: surface(..., surface_type="not_a_real_surface") has raised.
C7_Witness ==
    /\ built.op = "surface" /\ built.surface_type = StrType("not_a_real_surface")
    /\ built.out.kind = "ValueError"

\* z is the highest z-coordinate of the atoms of a slab
IsHighestZ(slab, z) ==
    /\ \E a \in DOMAIN slab.positions : slab.positions[a][3] = z
    /\ \A a \in DOMAIN slab.positions : slab.positions[a][3] <= z

\* the cell but for the z-component of its third vector
CellButZ(slab) == <<slab.cell[1], slab.cell[2], slab.cell[3][1], slab.cell[3][2]>>

\* C8: surface() with center = false calls the generator without a vacuum, and the
\* third cell vector of the Structure it returns has the z-component (highest z of
\* the atoms) + vacuum; the positions and the rest of the cell are the generator's.
C8_VacuumUncentered ==
    (built.op = "surface" /\ ~built.center /\ built.out.kind = "ok") =>
        LET r == built.out.result
        IN  /\ ~built.out.gen[1].vacuum.given
            /\ IsHighestZ(r, r.cell[3][3] - built.vacuum)
            /\ r.positions = built.out.raw.positions
            /\ CellButZ(r) = CellButZ(built.out.raw)

\* C8 witness: an uncentered slab of several atoms, the highest not the last, with
\* a vacuum of 2 above it.
C8_Witness ==
    /\ built.op = "surface" /\ ~built.center /\ built.out.kind = "ok"
    /\ built.vacuum = 2
    /\ Len(built.out.result.positions) = 3
    /\ built.out.result.cell[3][3] = 6

\* C9: surface() with center = true forwards the vacuum unchanged to the generator
\* and changes neither the cell nor the positions of the slab the generator
\* returned.
C9_CenteredForwarded ==
    (built.op = "surface" /\ built.center /\ built.out.gen # <<>>) =>
        /\ built.out.gen[1].vacuum = WithVacuum(built.vacuum)
        /\ built.out.kind = "ok" =>
              /\ built.out.result.cell = built.out.raw.cell
              /\ built.out.result.positions = built.out.raw.positions
              /\ built.out.raw \in {CenterInVacuum(raw, built.vacuum) : raw \in RawSlabs}

\* C9 witness: a centered slab of two atoms with the vacuum of 10 the generator
\* put below and above it.
C9_Witness ==
    /\ built.op = "surface" /\ built.center /\ built.out.kind = "ok"
    /\ built.vacuum = 10
    /\ built.out.result.positions = <<<<0, 0, 10>>, <<2, 0, 14>>>>
    /\ built.out.result.cell[3][3] = 24

\* C10: surface_hkl calls the generator with (lattice, hkl, layers) and no vacuum,
\* and sets the z-component of the third cell vector to (highest z of the raw
\* slab) + vacuum, with center = false and with center = true alike.
C10_HklAlwaysPads ==
    (built.op = "surface_hkl" /\ built.out.gen # <<>>) =>
        /\ ~built.out.gen[1].vacuum.given
        /\ built.out.kind = "ok" =>
              /\ IsHighestZ(built.out.raw, built.out.result.cell[3][3] - built.vacuum)
              /\ CellButZ(built.out.result) = CellButZ(built.out.raw)

\* C10 witness: a centered surface_hkl slab whose cell is the raw height 6 plus
\* the vacuum 10.
C10_Witness ==
    /\ built.op = "surface_hkl" /\ built.center /\ built.out.kind = "ok"
    /\ built.vacuum = 10
    /\ Len(built.out.raw.positions) = 2
    /\ built.out.result.cell[3][3] = 16

\* the lowest z-coordinate of the atoms of a slab is z
IsLowestZ(slab, z) ==
    /\ \E a \in DOMAIN slab.positions : slab.positions[a][3] = z
    /\ \A a \in DOMAIN slab.positions : slab.positions[a][3] >= z

\* C11: in surface_hkl every atom is shifted by the one vector
\* 0.5 * (third cell vector after padding) - (0, 0, z_max / 2), z_max the highest z
\* before the shift, if and only if center is true; with center = false the
\* positions are those of the raw slab. The cell is the padded one either way: the
\* centering step does not change it.
C11_HklCenterShift ==
    (built.op = "surface_hkl" /\ built.out.kind = "ok") =>
        LET r == built.out.result
            raw == built.out.raw
        IN  /\ DOMAIN r.positions = DOMAIN raw.positions
            /\ \E z_max \in 0 .. 8 :
                  /\ IsHighestZ(raw, z_max)
                  /\ CellButZ(r) = CellButZ(raw)
                  /\ r.cell[3][3] = z_max + built.vacuum
                  /\ built.center =>
                        \A a \in DOMAIN r.positions :
                           /\ 2 * (r.positions[a][1] - raw.positions[a][1]) = r.cell[3][1]
                           /\ 2 * (r.positions[a][2] - raw.positions[a][2]) = r.cell[3][2]
                           /\ 2 * (r.positions[a][3] - raw.positions[a][3]) = r.cell[3][3] - z_max
            /\ ~built.center => r.positions = raw.positions

\* C11 witness: a centered slab over a tilted cell: with the vacuum 10 the atoms
\* have moved by (1, 1, 5).
C11_Witness ==
    /\ built.op = "surface_hkl" /\ built.center /\ built.out.kind = "ok"
    /\ built.vacuum = 10
    /\ built.out.raw.positions = <<<<0, 0, 2>>, <<2, 0, 6>>>>
    /\ built.out.result.positions = <<<<1, 1, 7>>, <<3, 1, 11>>>>

\* C12 (as claimed): the uncentered surface_hkl slab has its highest atom at z_max,
\* and in the centered one the midpoint of the slab, (min z + max z) / 2, is half
\* the height of the padded cell, (z_max + vacuum) / 2.
C12_CenteredMidpoint ==
    (built.op = "surface_hkl" /\ built.out.kind = "ok") =>
        LET r == built.out.result
        IN  \E lo \in 0 .. 20, hi \in 0 .. 20 :
               /\ IsLowestZ(r, lo) /\ IsHighestZ(r, hi)
               /\ ~built.center => IsHighestZ(built.out.raw, hi)
               /\ built.center => lo + hi = r.cell[3][3]

\* C13: the Structure surface() returns is periodic on every axis when pbc is None
\* (or left at its default, True), and otherwise has the pbc that was given,
\* whatever center is.
C13_SurfacePbc ==
    (built.op = "surface" /\ built.out.kind = "ok") =>
        built.out.result.pbc =
            (IF built.pbc.tag = "none" THEN <<TRUE, TRUE, TRUE>> ELSE built.pbc.axes)

\* C13 witness: a centered slab built with pbc=None is periodic on every axis,
\* though its generator left the z axis open.
C13_Witness ==
    /\ built.op = "surface" /\ built.center /\ built.out.kind = "ok"
    /\ built.pbc = PbcNone
    /\ built.out.raw.pbc = <<TRUE, TRUE, FALSE>>
    /\ built.out.result.pbc = <<TRUE, TRUE, TRUE>>

\* C16 (as claimed): the message of an IndexError holds the frame the caller asked
\* for and the valid range [-N, N).
C16_MessageNamesRequest ==
    (last.called /\ last.out.kind = "IndexError" /\ IsInt(LastFrame)) =>
        /\ last.out.msg.frame = LastFrame
        /\ last.out.msg.lo = 0 - N
        /\ last.out.msg.hi = N

\* C17 (as claimed): an error of surface() or surface_hkl() is the generator's
\* own, or the ValueError of the name lookup; the builders raise nothing else.
C17_OnlyLookupError ==
    (built.op # "none" /\ built.out.kind # "ok") =>
        \/ built.out.raisedBy = "generator"
        \/ /\ built.out.raisedBy = "surface" /\ built.out.kind = "ValueError"
           /\ built.out.msg = built.surface_type.name

\* the slab generators the list is claimed to consist of: the low-index families,
\* mx2, the root variants and the generator by Miller index
SlabGenerators == SlabFamily \cup RootFamily \cup {"mx2", "root_surface", "surface"}

\* C18 (as claimed): a surface_type string resolves exactly when it is the name of
\* an entry of the list, every resolved name is a slab generator that is called
\* with (symbol, size, ...), and every other string raises ValueError.
C18_TableOfSlabGenerators ==
    (built.op = "surface" /\ built.surface_type.tag = "str") =>
        /\ (built.out.gen # <<>>) <=> (built.surface_type.name \in TableNames)
        /\ built.out.gen # <<>> =>
              /\ built.out.gen[1].name = built.surface_type.name
              /\ built.out.gen[1].name \in SlabGenerators
        /\ built.surface_type.name \notin TableNames => built.out.kind = "ValueError"

\* C19 (as claimed): a traversal asks the per-frame computation only for an index
\* inside [0, number_of_structures) as the count is when the element is pulled.
C19_TraversalChecked ==
    [][\A it \in IterIds :
          Len(iters'[it].requested) > Len(iters[it].requested) =>
              LET i == iters'[it].requested[Len(iters'[it].requested)]
              IN  0 <= i /\ i < Len(frames)]_vars

\* C20: with a translation, get_structure(key) is get_structure(t) for the integer
\* t the translation returns: t outside [-N, N) raises IndexError and a negative t
\* inside it counts from the end.
C20_TranslatedLikeInteger ==
    (last.called /\ ~IsInt(LastFrame) /\ keyed /\ KeyedTranslation(LastFrame).kind = "ok") =>
        LET t == KeyedTranslation(LastFrame).v
        IN  /\ last.out \in get_structure(self, IntArg(t), last.wrap_atoms, NoneArg)
            /\ (t < 0 - N \/ t >= N) => last.out.kind = "IndexError"
            /\ (t >= 0 - N /\ t < 0) =>
                  /\ last.out.kind = "ok"
                  /\ last.out.calls = <<[frame |-> t + N, wrap_atoms |-> last.wrap_atoms]>>

\* C20 witness: a keyed producer with three structures was asked for "last" and
\* has returned the third, which differs from the first.
C20_Witness ==
    /\ keyed /\ N = 3 /\ frames[3] # frames[1]
    /\ last.called /\ LastFrame = KeyArg("last")
    /\ last.out.kind = "ok" /\ last.out.structure.site = frames[3]

\* C21: of the errors of a translation only NotImplementedError (no translation
\* at all) becomes the KeyError that names the key; a KeyError or another error of
\* the producer's own translation reaches the caller as it was raised; in neither
\* case is the count read or the per-frame computation invoked.
C21_OnlyAbsenceConverted ==
    (last.called /\ ~IsInt(LastFrame)) =>
        LET t == _translate_frame(self, LastFrame)
        IN  /\ (last.out.kind = "KeyError") <=> (t.kind = "NotImplementedError")
            /\ t.kind = "NotImplementedError" =>
                  last.out.msg.frame = LastFrame /\ last.out.calls = <<>>
            /\ t.kind \in {"KeyError", "TypeError"} =>
                  /\ last.out.kind = ProducerRaised(t.kind)
                  /\ last.out.msg = NoMsg
                  /\ last.out.reads = 0 /\ last.out.calls = <<>>
            /\ (keyed <=> t.kind # "NotImplementedError")

\* C21 witness: a producer with a translation and two structures was asked for a
\* key it has no frame for, and its own KeyError has reached the caller.
C21_Witness ==
    /\ keyed /\ N = 2
    /\ last.called /\ LastFrame = KeyArg("missing")
    /\ last.out.kind = "ProducerKeyError" /\ last.out.calls = <<>>

\* an outcome of get_structure without what depends on the per-frame computation's
\* treatment of wrap_atoms
Unwrapped(o) == [kind |-> o.kind, site |-> o.structure.site, msg |-> o.msg,
                 reads |-> o.reads, frames |-> [k \in DOMAIN o.calls |-> o.calls[k].frame]]

\* C22: the wrap_atoms given to get_structure or iter_structures is the value every
\* call of the per-frame computation receives (here: what the structure records as
\* received), and it changes neither the index, nor the bounds check, nor the
\* number of the elements of a traversal.
C22_WrapPassedThrough ==
    /\ \A f \in FrameArgs, st \in StepArgs :
          /\ \A w \in BOOLEAN : \A o \in get_structure(self, f, w, st) :
                /\ \A k \in DOMAIN o.calls : o.calls[k].wrap_atoms = w
                /\ o.kind = "ok" => o.structure.wrapped = w
          /\ {Unwrapped(o) : o \in get_structure(self, f, TRUE, st)}
                = {Unwrapped(o) : o \in get_structure(self, f, FALSE, st)}
    /\ \A it \in IterIds :
          LET g == iters[it]
          IN  /\ \A k \in DOMAIN g.out : g.out[k].wrapped = g.wrap_atoms
              /\ g.requested = [k \in 1 .. Len(g.requested) |-> k - 1]
              /\ g.pc = "done" => Len(g.out) = g.n

\* C22 witness: a traversal asked not to wrap has ended over two structures, both
\* computed without wrapping, next to one that was asked to wrap.
C22_Witness ==
    /\ N = 2
    /\ iters["g1"].pc = "done" /\ ~iters["g1"].wrap_atoms
    /\ Len(iters["g1"].out) = 2 /\ ~iters["g1"].out[2].wrapped
    /\ iters["g2"].pc = "run" /\ iters["g2"].wrap_atoms /\ iters["g2"].out[1].wrapped

\* C23 (steps): a pull of one traversal moves no other traversal.
C23_Steps ==
    \A it \in IterIds :
        (iters[it].pc \in {"new", "run"} /\ iters'[it] # iters[it] /\ frames' = frames) =>
            \A other \in IterIds \ {it} : iters'[other] = iters[other]

\* C23 (states): each of the traversals over a producer whose count did not change
\* has yielded the structures of the indices 0, 1, ... in order, whatever the other
\* traversals have done, and all N of them when it has ended.
C23_States ==
    \A it \in IterIds :
        LET g == iters[it]
        IN  (g.pc \in {"run", "done"} /\ g.stable) =>
                /\ g.out = [k \in 1 .. g.i |->
                               [kind |-> "ok", site |-> frames[k], wrapped |-> g.wrap_atoms]]
                /\ g.i <= N
                /\ g.pc = "done" => g.i = N

\* C23: traversals of the same producer pulled in any interleaving do not disturb
\* each other: none skips, repeats or reorders an index because of another.
C23_Interleaved == [][C23_Steps]_vars /\ []C23_States

\* C23 witness: of two traversals over two different structures one has ended and
\* the other, pulled in between, holds its first element.
C23_Witness ==
    /\ N = 2 /\ frames[1] # frames[2]
    /\ iters["g1"].pc = "done" /\ iters["g1"].stable /\ Len(iters["g1"].out) = 2
    /\ iters["g2"].pc = "run" /\ iters["g2"].stable /\ Len(iters["g2"].out) = 1

\* C24 (steps): the call of iter_structures asks for no index; only a pull asks for
\* one, and one pull asks for exactly one, the next in ascending order, or ends
\* the traversal.
C24_Steps ==
    \A it \in IterIds :
        /\ iters'[it].requested # iters[it].requested =>
              \/ iters'[it].pc = "new" /\ iters'[it].requested = <<>>
              \/ /\ iters[it].pc \in {"new", "run"}
                 /\ iters'[it].requested = Append(iters[it].requested, Len(iters[it].requested))
        /\ (iters[it].pc \in {"new", "run"} /\ iters'[it].pc = "run" /\ iters'[it] # iters[it]
                /\ frames' = frames) =>
              /\ Len(iters'[it].requested) = Len(iters[it].requested) + 1
              /\ Len(iters'[it].out) = Len(iters[it].out) + 1
        /\ (iters[it].pc \in {"new", "run"} /\ iters'[it].pc = "done") =>
              iters'[it].requested = iters[it].requested /\ iters'[it].out = iters[it].out

\* C24 (states): a traversal that was not pulled has computed nothing, and one that
\* has handed out k elements has computed exactly k structures.
C24_States ==
    \A it \in IterIds :
        LET g == iters[it]
        IN  /\ g.pc \in {"none", "new"} => g.requested = <<>> /\ g.out = <<>>
            /\ g.pc \in {"run", "done"} => Len(g.requested) = Len(g.out)
            /\ g.pc = "error" => Len(g.requested) = Len(g.out) + 1

\* C24: iter_structures is lazy: one per-frame computation per pull, none before
\* the first pull and none ahead of the caller.
C24_Lazy == [][C24_Steps]_vars /\ []C24_States

\* C24 witness: a traversal over two structures was left after its first element:
\* the one index 0 was computed; another traversal was created and never pulled.
C24_Witness ==
    /\ N = 2
    /\ iters["g1"].pc = "run" /\ iters["g1"].requested = <<0>> /\ Len(iters["g1"].out) = 1
    /\ iters["g2"].pc = "new" /\ iters["g2"].requested = <<>>

\* what holds of the per-frame computation in every get_structure call: at most
\* one invocation, with an index inside [0, N), and none when the call raises
C25_Invocations ==
    /\ Len(last.out.calls) <= 1
    /\ \A k \in DOMAIN last.out.calls :
          0 <= last.out.calls[k].frame /\ last.out.calls[k].frame < N
    /\ last.out.kind \in Raised \cup {"ProducerKeyError", "ProducerTypeError"} =>
          last.out.calls = <<>>

\* C25 (as claimed): in every get_structure call number_of_structures is read
\* exactly once, and the per-frame computation is invoked at most once, with an
\* index inside [0, N), and not on a call that raises.
C25_ReadExactlyOnce ==
    last.called => (last.out.reads = 1 /\ C25_Invocations)

\* C25 (amended): number_of_structures is read at most once in a get_structure
\* call: exactly once, after the translation, when the frame is an integer or was
\* translated, and not at all when the call ends in the translation step (KeyError
\* for no translation, or the producer's own error); the per-frame computation is
\* invoked at most once, with an index inside [0, N), and not on a call that raises.
C25_ReadAtMostOnce ==
    last.called =>
        /\ last.out.reads =
              (IF IsInt(LastFrame) \/ _translate_frame(self, LastFrame).kind = "ok"
               THEN 1 ELSE 0)
        /\ C25_Invocations

\* C25 witness: a producer with three structures and a translation was asked for
\* "last": one read of the count, one invocation, with index 2.
C25_Witness ==
    /\ keyed /\ N = 3
    /\ last.called /\ LastFrame = KeyArg("last")
    /\ last.out.reads = 1
    /\ last.out.calls = <<[frame |-> 2, wrap_atoms |-> last.wrap_atoms]>>

\* C26 (steps): the first pull of a traversal reads the count as it is then,
\* whatever it was when iter_structures() was called; no later step, of the
\* traversal or of the producer, changes the count the traversal runs to; and the
\* traversal ends when its index has reached that count.
C26_Steps ==
    \A it \in IterIds :
        /\ (iters[it].pc = "new" /\ iters'[it].pc \in {"run", "done", "error"}) =>
              iters'[it].n = Len(frames)
        /\ (iters[it].pc \in {"run", "done", "error"}
                /\ iters'[it].pc \in {"run", "done", "error"}) =>
              iters'[it].n = iters[it].n
        /\ (iters[it].pc = "run" /\ iters'[it].pc = "done") => iters[it].i = iters[it].n

\* C26 (states): a traversal asks for the indices 0, 1, ... below the count M it
\* read at its first pull, and for all M of them when it ends, whatever the
\* producer's count has become.
C26_States ==
    \A it \in IterIds :
        LET g == iters[it]
        IN  g.pc \in {"run", "done", "error"} =>
                /\ Len(g.requested) <= g.n
                /\ \A k \in DOMAIN g.requested : g.requested[k] = k - 1
                /\ g.pc = "done" => Len(g.requested) = g.n /\ Len(g.out) = g.n

\* C26: a traversal reads number_of_structures once, at its first pull, and runs
\* over the indices below that value.
C26_CountReadAtFirstPull == [][C26_Steps]_vars /\ []C26_States

\* C26 witness: a traversal that started over one structure has ended with one
\* element although the producer holds two structures by now.
C26_Witness ==
    /\ N = 2
    /\ iters["g1"].pc = "done" /\ ~iters["g1"].stable
    /\ iters["g1"].n = 1 /\ iters["g1"].requested = <<0>> /\ Len(iters["g1"].out) = 1

\* C27: the citation is registered by every call of surface() and surface_hkl(),
\* also by one that then raises (the ValueError of the name lookup, an error of the
\* generator, an error of the padding): it is in the set after the failed call, and
\* the set is not put back to what it was.
C27_RegisteredBeforeFailure ==
    /\ [](built.op # "none" => publication_ase \in publications)
    /\ [][(built.op = "none" /\ built'.op # "none" /\ built'.out.kind # "ok") =>
             publications' = publications \cup {publication_ase}]_vars

\* C27 witness: the first call was surface() with a name that is in no list: it
\* has raised ValueError before any generator was called, and the citation is
\* registered.
C27_Witness ==
    /\ built.op = "surface" /\ built.out.kind = "ValueError"
    /\ built.out.raisedBy = "surface" /\ built.out.gen = <<>>
    /\ publications = {publication_pyiron, publication_ase}

\* C28: a surface_type that is a plain function is called as the generator, in the
\* list or not, with the vacuum passed on exactly when center is true, and the
\* result is padded and given its pbc as for a name; for a function of the list
\* the outcome is one of those of the call with its name. A surface_type that is
\* neither a name of the list nor a plain function, a callable of another type
\* included, raises ValueError and nothing is called.
C28_FunctionAsGenerator ==
    /\ (built.op = "surface" /\ built.surface_type.tag = "function") =>
          LET call == built.out.gen[1]
              r == built.out.result
          IN  /\ Len(built.out.gen) = 1
              /\ call.name = built.surface_type.name
              /\ call.vacuum = (IF built.center THEN WithVacuum(built.vacuum) ELSE NoVacuum)
              /\ built.surface_type.name \in TableNames =>
                    built.out \in surface(call.symbol, StrType(call.name), call.size,
                                          built.vacuum, built.center, built.pbc, call.kwargs)
              /\ built.out.kind = "ok" =>
                    /\ r.pbc = (IF built.pbc.tag = "none" THEN <<TRUE, TRUE, TRUE>>
                                ELSE built.pbc.axes)
                    /\ r.positions = built.out.raw.positions
                    /\ ~built.center =>
                          \E z_max \in 0 .. 8 :
                             IsHighestZ(r, z_max) /\ r.cell[3][3] = z_max + built.vacuum
                    /\ built.center => r.cell = built.out.raw.cell
    /\ (built.op = "surface" /\ built.surface_type.tag = "callable") =>
          /\ built.out.kind = "ValueError" /\ built.out.raisedBy = "surface"
          /\ built.out.msg = built.surface_type.name
          /\ built.out.gen = <<>> /\ built.out.result = NoSlab

\* C28 witness: surface() was given a function of the caller's that is in no list,
\* with center = false and vacuum 10: the function's three-atom slab has come back
\* with the cell height 4 + 10.
C28_Witness ==
    /\ built.op = "surface" /\ built.surface_type = FunctionType(UserFunction)
    /\ ~built.center /\ built.vacuum = 10 /\ built.out.kind = "ok"
    /\ Len(built.out.result.positions) = 3
    /\ built.out.result.cell[3][3] = 14

\* C29: surface_hkl gives the Structure the pbc of the call as it is: true on every
\* axis when the keyword is left out, and for an explicit None what the setter
\* makes of None, not the true that surface() puts in its place.
C29_HklPbcVerbatim ==
    (built.op = "surface_hkl" /\ built.out.kind = "ok") =>
        /\ built.out.result.pbc =
              (IF built.pbc = PbcOmitted THEN <<TRUE, TRUE, TRUE>> ELSE built.pbc.axes)
        /\ built.pbc = PbcNone =>
              /\ built.out.result.pbc = SetPbc(built.out.raw, PbcNone).pbc
              /\ built.out.result.pbc # SetPbc(built.out.raw, DefaultPbc(PbcNone)).pbc

\* C29 witness: surface_hkl(..., pbc=None) has returned a Structure that is not
\* periodic on every axis although the raw slab was.
C29_Witness ==
    /\ built.op = "surface_hkl" /\ built.pbc = PbcNone /\ built.out.kind = "ok"
    /\ built.out.raw.pbc = <<TRUE, TRUE, TRUE>>
    /\ built.out.result.pbc # <<TRUE, TRUE, TRUE>>

\* C30: read() calls the pymatgen reader first; it calls the ASE reader, with the
\* same arguments, exactly when the pymatgen reader has raised ValueError or
\* TypeError, and then returns or raises what the ASE reader does; a structure of
\* pymatgen's is returned without a call of the ASE reader, and any other error of
\* pymatgen's reaches the caller without a fallback.
C30_ReadFallback ==
    reading.called =>
        LET o == reading.out
            same(c, library) == c = [reader |-> library, file |-> reading.file,
                                     format |-> reading.format]
        IN  /\ Len(o.calls) \in {1, 2} /\ same(o.calls[1], "pymatgen")
            /\ (Len(o.calls) = 2) <=> (o.pymatgen \in {"ValueError", "TypeError"})
            /\ Len(o.calls) = 2 => same(o.calls[2], "ase")
            /\ o.pymatgen = "ok" =>
                  o.kind = "ok" /\ o.structure.reader = "pymatgen" /\ Len(o.calls) = 1
            /\ o.pymatgen \notin {"ok", "ValueError", "TypeError"} =>
                  o.kind = o.pymatgen /\ o.raisedBy = "pymatgen"
            /\ Len(o.calls) = 2 =>
                  \/ o.kind = "ok" /\ o.structure.reader = "ase"
                  \/ o.kind \in ReaderErrors /\ o.raisedBy = "ase"

\* C30 witness: read("s.xyz", format="xyz"): the pymatgen reader has raised
\* TypeError and the structure is the one the ASE reader has read.
C30_Witness ==
    /\ reading.called /\ reading.file = "s.xyz" /\ reading.format = "xyz"
    /\ reading.out.pymatgen = "TypeError"
    /\ reading.out.kind = "ok" /\ reading.out.structure.reader = "ase"

====
